---- MODULE Spec2Model ----
(***************************************************************************)
(* Fingerprint enrollment and matching engine of UMID                      *)
(* (src/biometric_auth.py): the template store kept in biometric_data.csv, *)
(* the scanner adapter (hardware or demo), and the operations              *)
(* register_fingerprint, authenticate_fingerprint, remove_fingerprint and  *)
(* setup_scanner_demo_data.                                                *)
(*                                                                         *)
(* The store is a CSV file that every operation reads with pandas.read_csv *)
(* and writes back whole with DataFrame.to_csv.  The model keeps the file  *)
(* as text cells and models read_csv's column type inference and to_csv's  *)
(* formatting, because the code compares the parsed cells with the         *)
(* caller's string arguments.                                              *)
(***************************************************************************)
EXTENDS Integers, Sequences, FiniteSets, TLC

(***************************************************************************)
(* Bounds of the model                                                     *)
(***************************************************************************)
\* number of operations of one run (the clock stops there)
MaxOps == 4
\* number of template positions of the modelled scanner (getStorageCapacity)
SlotCapacity == 2
\* number of operations the operators of an interleaved run start
MaxConcurrentOps == 3
\* number of store operations of one run of the application's screens
MaxAppOps == 3
\* number of store writes of one run that fail, in the runs with write
\* failures (SpecFaults)
MaxWriteFaults == 1

(***************************************************************************)
(* Program constants                                                       *)
(***************************************************************************)
AuthThreshold == 80
Tolerance == 10
VerifyThresholdTenths == 7
DemoQualityFloor == 70
DefaultQuality == 80
CapturedHashQuality == 85
HexBase == 16

(***************************************************************************)
(* Inputs: user ids, characteristic vectors, qualities                     *)
(***************************************************************************)
\* user ids the callers pass (strings typed into a text field)
UserIds == {"patient1", "7"}
\* the ids of the demo rows of setup_scanner_demo_data, in list order
demo_users == <<"patient1", "doctor1", "admin1", "pharmassist1">>

\* texts that pandas.read_csv parses as integers
NumericIds == {"7", "07"}
ParseInt(s) == CASE s = "7" -> 7 [] s = "07" -> 7 [] OTHER -> 0
FormatInt(n) == CASE n = 7 -> "7" [] OTHER -> "0"

\* characteristic vectors the sensor / the generator can deliver
VecA == <<10, 20, 30, 40, 50>>
\* the same finger with one dead position (a zero entry)
VecB == <<12, 25, 30, 40, 0>>
\* another finger: no position within the tolerance of VecA
VecC == <<100, 126, 50, 62, 88>>
DemoVecs == {VecA, VecC}
HwVecs == {VecA, VecB, VecC}
DemoQualities == {75, 95}
SetupQualities == {80}

Never == 0
NoData == [characteristics |-> <<>>, hash |-> <<>>, quality_score |-> 0]
NoCell == [kind |-> "none", n |-> 0, s |-> ""]
NoPosition == [kind |-> "none", n |-> 0]
\* the model's digests have one hex digit per characteristic
HashLen == Len(VecA)

RECURSIVE SumTo(_, _)
SumTo(f, n) == IF n = 0 THEN 0 ELSE f[n] + SumTo(f, n - 1)

Min(a, b) == IF a <= b THEN a ELSE b

(***************************************************************************)
(* hashlib.sha256(str(characteristics)).hexdigest(): a deterministic       *)
(* fixed-length string of hex digits.  The model uses a short mixing       *)
(* digest of HashLen hex digits: every digit depends on the whole vector.  *)
(***************************************************************************)
Digest(v) ==
    LET s1 == SumTo(v, Len(v))
        s2 == SumTo([j \in 1..Len(v) |-> j * v[j]], Len(v))
    IN  [i \in 1..HashLen |->
            ((s1 + i) * (s2 + 2 * i + 1) + v[i] * v[i]) % HexBase]

\* sha256 of "demo_<user>_fingerprint_<now>": depends on the user and the
\* time, not on any characteristics
DemoDigest(i, t) ==
    [k \in 1..HashLen |-> (i * 5 + t * 3 + k * (i + t)) % HexBase]

\* the operators (BiometricAuth instances) working on the same store file
Operators == {"A", "B"}

\* no call in progress; returned and returned_user tell what the operator's
\* last call that reached its write came back with
NoCall ==
    [pc |-> "idle", op |-> "", user_id |-> "", snapshot |-> <<>>,
     pending |-> <<>>, result |-> NoCell,
     score |-> 0, returned |-> "", returned_user |-> ""]

(***************************************************************************)
(* State                                                                   *)
(***************************************************************************)
VARIABLES
    biometric_file,     \* biometric_data.csv: header present?, rows as text
    demo_mode,          \* BiometricAuth.demo_mode
    scanner,            \* BiometricAuth.scanner: "None" or "PyFingerprint"
    scanner_templates,  \* occupied template positions inside the sensor
    now,                \* the clock (datetime.now), one tick per operation
    fault_budget,       \* number of store writes that may still fail
    last,               \* what the last operation did and returned
    capture,            \* a hardware capture followed poll by poll
    ops,                \* per operator: the call in progress between its
                        \* read of the store and its write
    session,            \* st.session_state of one browser session
    credentials         \* credentials.csv: the rows as text

vars == <<biometric_file, demo_mode, scanner, scanner_templates, now,
          fault_budget, last, capture, ops, session, credentials>>

\* the library and the administrator's pages leave the session and the
\* credentials registry alone
NoSessionChange == UNCHANGED <<session, credentials>>

(***************************************************************************)
(* pandas.read_csv / DataFrame.to_csv                                      *)
(***************************************************************************)
\* read_csv infers int64 for a column whose cells all parse as integers
AllNumeric(rows) ==
    /\ Len(rows) > 0
    /\ \A i \in 1..Len(rows) : rows[i].user_id \in NumericIds

ParseCell(text, numeric) ==
    IF numeric THEN [kind |-> "int", n |-> ParseInt(text), s |-> ""]
               ELSE [kind |-> "str", n |-> 0, s |-> text]

FormatCell(cell) == IF cell.kind = "int" THEN FormatInt(cell.n) ELSE cell.s

\* the DataFrame of the file: the same rows with the user_id cells typed
read_csv(file) ==
    [i \in 1..Len(file.rows) |->
        [file.rows[i] EXCEPT !.user_id = ParseCell(@, AllNumeric(file.rows))]]

\* read_csv raises EmptyDataError on a file without a header line
ReadRaises(file) == ~file.columns

\* the text rows to_csv writes for a DataFrame
CsvRows(df) ==
    [i \in 1..Len(df) |-> [df[i] EXCEPT !.user_id = FormatCell(@)]]

\* open(path, "w") truncates the file before any row is written: a write
\* either completes, fails before the file is opened, or fails after the
\* truncation and leaves a header with the first k rows or nothing at all
WriteOutcomes(df) ==
    {[kind |-> "ok", k |-> 0]}
    \cup IF fault_budget > 0
         THEN {[kind |-> "error_open", k |-> 0],
               [kind |-> "error_empty", k |-> 0]}
              \cup {[kind |-> "error_partial", k |-> k] :
                        k \in 0..(Len(df) - 1)}
         ELSE {}

to_csv(file, df, w) ==
    CASE w.kind = "ok" -> [columns |-> TRUE, rows |-> CsvRows(df)]
      [] w.kind = "error_open" -> file
      [] w.kind = "error_empty" -> [columns |-> FALSE, rows |-> <<>>]
      [] OTHER -> [columns |-> TRUE, rows |-> SubSeq(CsvRows(df), 1, w.k)]

\* one whole-table write with outcome w
Write(df, w) ==
    /\ biometric_file' = to_csv(biometric_file, df, w)
    /\ fault_budget' = IF w.kind = "ok" THEN fault_budget
                                        ELSE fault_budget - 1

NoWrite == UNCHANGED <<biometric_file, fault_budget>>

\* the comparison negated
CellEqStr_Negated(cell, user_id) == ~(cell.kind = "str" /\ cell.s = user_id)

\* a string argument compared with a DataFrame cell (Series == scalar)
CellEqStr(cell, user_id) == cell.kind = "str" /\ cell.s = user_id

Filter(df, Keep(_)) == SelectSeq(df, Keep)

\* the emptiness test that never holds
Empty_Never(df) == FALSE

\* DataFrame.empty
Empty(df) == Len(df) = 0

(***************************************************************************)
(* Capture pipeline                                                        *)
(***************************************************************************)
NonZeroCount(v) == Cardinality({j \in 1..Len(v) : v[j] # 0})

\* the score rounded up
calculate_quality_score_RoundedUp(characteristics) ==
    IF Len(characteristics) = 0
    THEN DefaultQuality
    ELSE Min(100, (NonZeroCount(characteristics) * 100
                      + Len(characteristics) - 1) \div Len(characteristics))

\* int(min(100, non_zero / len * 100)) for a list or tuple; the default when
\* len() is 0 (the division raises).  For the lengths used here, and for the
\* 512 values the sensor delivers, the double arithmetic gives the exact
\* integer part.
calculate_quality_score(characteristics) ==
    IF Len(characteristics) = 0
    THEN DefaultQuality
    ELSE Min(100, (NonZeroCount(characteristics) * 100) \div Len(characteristics))

Captured(v, q, msg) ==
    [success |-> TRUE,
     data |-> [characteristics |-> v, hash |-> Digest(v), quality_score |-> q],
     message |-> msg]

CaptureFailed(msg) == [success |-> FALSE, data |-> NoData, message |-> msg]

\* the demo capture whose quality can be as low as the floor
demo_capture_fingerprint_AtFloor ==
    {Captured(v, q, "demo_captured") :
        v \in DemoVecs, q \in DemoQualities \cup {DemoQualityFloor}}

\* 512 random characteristics in 1..255 and a random quality in 75..95
demo_capture_fingerprint ==
    {Captured(v, q, "demo_captured") : v \in DemoVecs, q \in DemoQualities}

\* the capture that polls the sensor whatever the adapter state
capture_fingerprint_data_IgnoresMode(demo, sc) ==
    {Captured(v, calculate_quality_score(v), "captured") : v \in HwVecs}
    \cup {CaptureFailed("timeout"), CaptureFailed("capture_failed")}

\* the results a capture can have in the given adapter state
capture_fingerprint_data(demo, sc) ==
    IF demo \/ sc = "None"
    THEN demo_capture_fingerprint
    ELSE {Captured(v, calculate_quality_score(v), "captured") : v \in HwVecs}
         \cup {CaptureFailed("timeout"), CaptureFailed("capture_failed")}

(***************************************************************************)
(* Matching                                                                *)
(***************************************************************************)
Abs(x) == IF x < 0 THEN -x ELSE x

\* number of positions where the two sequences are within tol of each other
CloseCount(a, b, tol) ==
    Cardinality({j \in 1..Min(Len(a), Len(b)) : Abs(a[j] - b[j]) <= tol})

\* the check that lets a demo quality of exactly the floor pass
verify_fingerprint_match_FloorPasses(demo, data1, data2) ==
    IF demo
    THEN /\ data1.quality_score >= DemoQualityFloor
         /\ data2.quality_score >= DemoQualityFloor
    ELSE LET chars1 == data1.characteristics
             chars2 == data2.characteristics
         IN  /\ Len(chars1) = Len(chars2)
             /\ Len(chars1) > 0
             /\ CloseCount(chars1, chars2, Tolerance) * 10
                    >= VerifyThresholdTenths * Len(chars1)

\* _verify_fingerprint_match; a division by len() = 0 raises and the
\* handler returns False
verify_fingerprint_match(demo, data1, data2) ==
    IF demo
    THEN /\ data1.quality_score > DemoQualityFloor
         /\ data2.quality_score > DemoQualityFloor
    ELSE LET chars1 == data1.characteristics
             chars2 == data2.characteristics
         IN  /\ Len(chars1) = Len(chars2)
             /\ Len(chars1) > 0
             /\ CloseCount(chars1, chars2, Tolerance) * 10
                    >= VerifyThresholdTenths * Len(chars1)

\* percentage of positions at which the two hash strings have the same digit
calculate_match_score(hash1, hash2) ==
    IF hash1 = hash2
    THEN 100
    ELSE LET min_len == Min(Len(hash1), Len(hash2))
         IN  IF min_len = 0
             THEN 0
             ELSE (CloseCount(hash1, hash2, 0) * 100) \div min_len

\* the search loop that lets a later row of equal score take the place of
\* the candidate
RECURSIVE SearchRows_LaterOnTie(_, _, _, _, _)
SearchRows_LaterOnTie(df, auth_hash, i, best, best_score) ==
    IF i > Len(df)
    THEN [best |-> best, score |-> best_score]
    ELSE IF auth_hash = df[i].fingerprint_hash
         THEN [best |-> i, score |-> 100]
         ELSE LET match_score ==
                      calculate_match_score(auth_hash, df[i].fingerprint_hash)
              IN  IF match_score >= best_score /\ match_score >= AuthThreshold
                  THEN SearchRows_LaterOnTie(df, auth_hash, i + 1, i,
                                             match_score)
                  ELSE SearchRows_LaterOnTie(df, auth_hash, i + 1, best,
                                             best_score)

\* the search loop whose exact hit keeps an earlier proximity candidate
RECURSIVE SearchRows_KeepsCandidate(_, _, _, _, _)
SearchRows_KeepsCandidate(df, auth_hash, i, best, best_score) ==
    IF i > Len(df)
    THEN [best |-> best, score |-> best_score]
    ELSE IF auth_hash = df[i].fingerprint_hash
         THEN [best |-> IF best # 0 THEN best ELSE i, score |-> 100]
         ELSE LET match_score ==
                      calculate_match_score(auth_hash, df[i].fingerprint_hash)
              IN  IF match_score > best_score /\ match_score >= AuthThreshold
                  THEN SearchRows_KeepsCandidate(df, auth_hash, i + 1, i,
                                                 match_score)
                  ELSE SearchRows_KeepsCandidate(df, auth_hash, i + 1, best,
                                                 best_score)

\* the search loop of authenticate_fingerprint from row i on;
\* best is the index of best_match (0 for None)
RECURSIVE SearchRows(_, _, _, _, _)
SearchRows(df, auth_hash, i, best, best_score) ==
    IF i > Len(df)
    THEN [best |-> best, score |-> best_score]
    ELSE IF auth_hash = df[i].fingerprint_hash
         THEN [best |-> i, score |-> 100]
         ELSE LET match_score ==
                      calculate_match_score(auth_hash, df[i].fingerprint_hash)
              IN  IF match_score > best_score /\ match_score >= AuthThreshold
                  THEN SearchRows(df, auth_hash, i + 1, i, match_score)
                  ELSE SearchRows(df, auth_hash, i + 1, best, best_score)

(***************************************************************************)
(* Results of the operations                                               *)
(***************************************************************************)
\* op, argument, success flag, returned user id (authenticate), the kind of
\* the message, the number of captures performed, the match score and, for
\* a registration that succeeded and for a sample that was searched for, the
\* captured samples; valid_users is the identity set an orphan cleanup ran
\* with, attempts the number of connection attempts of the constructor
Result(op, user_id, success, result, message, captures, score, d1, d2) ==
    [op |-> op, user_id |-> user_id, success |-> success, result |-> result,
     message |-> message, captures |-> captures, score |-> score,
     data1 |-> d1, data2 |-> d2, valid_users |-> {}, attempts |-> 0]

HardwareAvailable == ~demo_mode /\ scanner # "None"

FreePositions == (0..(SlotCapacity - 1)) \ scanner_templates

Tick ==
    /\ now < MaxOps
    /\ now' = now + 1
    /\ UNCHANGED <<demo_mode, scanner, capture, ops>>

(***************************************************************************)
(* BiometricAuth.register_fingerprint                                      *)
(***************************************************************************)
NewRegistration(user_id, final_data, scanner_position, t) ==
    [user_id |-> [kind |-> "str", n |-> 0, s |-> user_id],
     fingerprint_hash |-> final_data.hash,
     template_data |-> final_data.characteristics,
     registration_date |-> t,
     last_used |-> Never,
     quality_score |-> final_data.quality_score,
     scanner_position |-> scanner_position,
     usage_count |-> 0]

\* the second scan on a tie
FinalData_SecondOnTie(data1, data2) ==
    IF data1.quality_score > data2.quality_score THEN data1 ELSE data2

\* the better quality scan, the first one on a tie
FinalData(data1, data2) ==
    IF data1.quality_score >= data2.quality_score THEN data1 ELSE data2

\* loadCharacteristics + storeTemplate: the first free position, or an
\* exception (communication error, sensor full) that the code only logs
StoreTemplateOutcomes ==
    IF HardwareAvailable
    THEN {[stored |-> TRUE, position |-> p] :
              p \in {q \in FreePositions : \A r \in FreePositions : q <= r}}
         \cup {[stored |-> FALSE, position |-> 0]}
    ELSE {[stored |-> FALSE, position |-> 0]}

\* the part of register_fingerprint after the two captures matched
StoreRegistration(user_id, biometric_df, data1, data2) ==
    \E st \in StoreTemplateOutcomes :
      LET final_data == FinalData(data1, data2)
          scanner_position ==
              IF st.stored THEN [kind |-> "slot", n |-> st.position]
                           ELSE NoPosition
          updated_df == Append(biometric_df,
              NewRegistration(user_id, final_data, scanner_position, now'))
      IN  /\ scanner_templates' =
                 IF st.stored THEN scanner_templates \cup {st.position}
                              ELSE scanner_templates
          /\ \E w \in WriteOutcomes(updated_df) :
               /\ Write(updated_df, w)
               /\ last' = IF w.kind = "ok"
                          THEN Result("register", user_id, TRUE, NoCell,
                                      "registered", 2, 0, data1, data2)
                          ELSE Result("register", user_id, FALSE, NoCell,
                                      "registration_failed", 2, 0,
                                      NoData, NoData)

\* the abort that has already stored the template in the sensor
AbortRegistration_AfterStoreTemplate(user_id, message, captures) ==
    /\ last' = Result("register", user_id, FALSE, NoCell, message, captures,
                      0, NoData, NoData)
    /\ NoWrite
    /\ scanner_templates' =
           IF HardwareAvailable
           THEN scanner_templates
                  \cup {q \in FreePositions : \A r \in FreePositions : q <= r}
           ELSE scanner_templates

\* the abort that gives no reason
AbortRegistration_NoReason(user_id, message, captures) ==
    /\ last' = Result("register", user_id, FALSE, NoCell, "", captures,
                      0, NoData, NoData)
    /\ NoWrite
    /\ UNCHANGED scanner_templates

\* "return False, <message>" before anything was stored
AbortRegistration(user_id, message, captures) ==
    /\ last' = Result("register", user_id, FALSE, NoCell, message, captures,
                      0, NoData, NoData)
    /\ NoWrite
    /\ UNCHANGED scanner_templates

register_fingerprint(user_id) ==
    /\ Tick
    /\ IF ReadRaises(biometric_file)
       THEN AbortRegistration(user_id, "registration_failed", 0)
       ELSE
       LET biometric_df == read_csv(biometric_file)
           existing_registration ==
               Filter(biometric_df, LAMBDA r : CellEqStr(r.user_id, user_id))
       IN
       IF ~Empty(existing_registration)
       THEN AbortRegistration(user_id, "already_registered", 0)
       ELSE
       \E c1 \in capture_fingerprint_data(demo_mode, scanner) :
         IF ~c1.success
         THEN AbortRegistration(user_id, "first_scan_failed", 1)
         ELSE
         \E c2 \in capture_fingerprint_data(demo_mode, scanner) :
           IF ~c2.success
           THEN AbortRegistration(user_id, "second_scan_failed", 2)
           ELSE
           IF ~verify_fingerprint_match(demo_mode, c1.data, c2.data)
           THEN AbortRegistration(user_id, "mismatch", 2)
           ELSE StoreRegistration(user_id, biometric_df, c1.data, c2.data)

(***************************************************************************)
(* BiometricAuth.authenticate_fingerprint                                  *)
(***************************************************************************)
\* the hashes a caller can pass as captured_hash
CapturedHashes == {Digest(VecA)}

\* last_used and usage_count of every row of the matched user id
UpdateUsage(biometric_df, best, t) ==
    LET user_id == biometric_df[best].user_id
        usage_count == biometric_df[best].usage_count + 1
    IN  [i \in 1..Len(biometric_df) |->
            IF biometric_df[i].user_id = user_id
            THEN [biometric_df[i] EXCEPT !.last_used = t,
                                         !.usage_count = usage_count]
            ELSE biometric_df[i]]

\* the part of authenticate_fingerprint after the sample is known
MatchAndUpdate(biometric_df, auth_hash, quality_score, captures, sample) ==
    LET found == SearchRows(biometric_df, auth_hash, 1, 0, 0)
    IN  IF found.best # 0
        THEN LET updated_df == UpdateUsage(biometric_df, found.best, now')
             IN  \E w \in WriteOutcomes(updated_df) :
                   /\ Write(updated_df, w)
                   /\ last' =
                        IF w.kind = "ok"
                        THEN Result("authenticate", "", TRUE,
                                    biometric_df[found.best].user_id,
                                    "authenticated", captures, found.score,
                                    sample, NoData)
                        ELSE Result("authenticate", "", FALSE, NoCell,
                                    "authentication_error", captures, 0,
                                    NoData, NoData)
        ELSE /\ last' = Result("authenticate", "", FALSE, NoCell,
                               "not_recognized", captures, 0, sample, NoData)
             /\ NoWrite

\* captured_hash is <<>> for None
authenticate_fingerprint(captured_hash) ==
    /\ Tick
    /\ UNCHANGED scanner_templates
    /\ IF ReadRaises(biometric_file)
       THEN /\ last' = Result("authenticate", "", FALSE, NoCell,
                              "authentication_error", 0, 0, NoData, NoData)
            /\ NoWrite
       ELSE
       LET biometric_df == read_csv(biometric_file)
       IN
       IF Empty(biometric_df)
       THEN /\ last' = Result("authenticate", "", FALSE, NoCell,
                              "no_registered_fingerprints", 0, 0, NoData, NoData)
            /\ NoWrite
       ELSE
       IF captured_hash # <<>>
       THEN MatchAndUpdate(biometric_df, captured_hash, CapturedHashQuality, 0,
                [characteristics |-> <<>>, hash |-> captured_hash,
                 quality_score |-> CapturedHashQuality])
       ELSE
       \E c \in capture_fingerprint_data(demo_mode, scanner) :
         IF ~c.success
         THEN /\ last' = Result("authenticate", "", FALSE, NoCell,
                                "capture_failed", 1, 0, NoData, NoData)
              /\ NoWrite
         ELSE MatchAndUpdate(biometric_df, c.data.hash, c.data.quality_score,
                             1, c.data)

(***************************************************************************)
(* BiometricAuth.remove_fingerprint                                        *)
(***************************************************************************)
\* the scanner_position column holds strings when some cell is not numeric
PositionsAreText(biometric_df) ==
    \E i \in 1..Len(biometric_df) : biometric_df[i].scanner_position.kind = "demo"

\* "if scanner_position and scanner_position != 'N/A'" followed by int():
\* the position handed to deleteTemplate, or none (int() raised, or falsy)
PositionToDelete(biometric_df, scanner_position) ==
    IF scanner_position.kind = "slot"
       /\ (scanner_position.n # 0 \/ PositionsAreText(biometric_df))
    THEN {scanner_position.n}
    ELSE {}

remove_fingerprint(user_id) ==
    /\ Tick
    /\ IF ReadRaises(biometric_file)
       THEN /\ last' = Result("remove", user_id, FALSE, NoCell,
                              "remove_failed", 0, 0, NoData, NoData)
            /\ NoWrite /\ UNCHANGED scanner_templates
       ELSE
       LET biometric_df == read_csv(biometric_file)
           user_data ==
               Filter(biometric_df, LAMBDA r : CellEqStr(r.user_id, user_id))
           remaining ==
               Filter(biometric_df, LAMBDA r : ~CellEqStr(r.user_id, user_id))
       IN
       IF Empty(user_data)
       THEN /\ last' = Result("remove", user_id, FALSE, NoCell,
                              "no_fingerprint_found", 0, 0, NoData, NoData)
            /\ NoWrite /\ UNCHANGED scanner_templates
       ELSE
       /\ \E deleted \in BOOLEAN :
            scanner_templates' =
                IF HardwareAvailable /\ deleted
                THEN scanner_templates
                       \ PositionToDelete(biometric_df,
                                          user_data[1].scanner_position)
                ELSE scanner_templates
       /\ \E w \in WriteOutcomes(remaining) :
            /\ Write(remaining, w)
            /\ last' = IF w.kind = "ok"
                       THEN Result("remove", user_id, TRUE, NoCell,
                                   "removed", 0, 0, NoData, NoData)
                       ELSE Result("remove", user_id, FALSE, NoCell,
                                   "remove_failed", 0, 0, NoData, NoData)

(***************************************************************************)
(* setup_scanner_demo_data                                                 *)
(***************************************************************************)
SetupVecs == {VecA}

DemoRegistration(i, characteristics, quality, t) ==
    [user_id |-> [kind |-> "str", n |-> 0, s |-> demo_users[i]],
     fingerprint_hash |-> DemoDigest(i, t),
     template_data |-> characteristics,
     registration_date |-> t,
     last_used |-> Never,
     quality_score |-> quality,
     scanner_position |-> [kind |-> "demo", n |-> i - 1],
     usage_count |-> 0]

setup_scanner_demo_data ==
    /\ Tick
    /\ UNCHANGED scanner_templates
    /\ IF ReadRaises(biometric_file)
       THEN /\ last' = Result("setup", "", FALSE, NoCell, "setup_failed",
                              0, 0, NoData, NoData)
            /\ NoWrite
       ELSE
       IF ~Empty(read_csv(biometric_file))
       THEN /\ last' = Result("setup", "", TRUE, NoCell, "demo_data_exists",
                              0, 0, NoData, NoData)
            /\ NoWrite
       ELSE
       \E chars \in [1..Len(demo_users) -> SetupVecs],
          quality \in [1..Len(demo_users) -> SetupQualities] :
         LET biometric_df ==
                 [i \in 1..Len(demo_users) |->
                     DemoRegistration(i, chars[i], quality[i], now')]
         IN  \E w \in WriteOutcomes(biometric_df) :
               /\ Write(biometric_df, w)
               /\ last' = IF w.kind = "ok"
                          THEN Result("setup", "", TRUE, NoCell,
                                      "demo_data_created", 0, 0, NoData, NoData)
                          ELSE Result("setup", "", FALSE, NoCell,
                                      "setup_failed", 0, 0, NoData, NoData)

(***************************************************************************)
(* The three operations taken by several operators on one store file.      *)
(* Each call reads the whole store (read_csv), works on its own DataFrame  *)
(* (captures, each two seconds or more) and later writes the whole         *)
(* DataFrame back (to_csv); nothing in the code locks the file, so the     *)
(* steps of other operators can fall between the read and the write.       *)
(***************************************************************************)
ConcurrentTick ==
    /\ now < MaxConcurrentOps
    /\ now' = now + 1
    /\ UNCHANGED <<demo_mode, scanner, capture, last, session, credentials>>

\* the call of operator p returns without reaching its write
Returns(p, op, user_id, message) ==
    /\ UNCHANGED ops
    /\ NoWrite

\* the call of operator p has its DataFrame ready and goes on to to_csv
Pends(p, op, user_id, biometric_df, updated_df, result, score) ==
    /\ ops' = [ops EXCEPT ![p] =
                  [pc |-> "writing", op |-> op, user_id |-> user_id,
                   snapshot |-> CsvRows(biometric_df),
                   pending |-> updated_df, result |-> result,
                   score |-> score, returned |-> ops[p].returned,
                   returned_user |-> ops[p].returned_user]]
    /\ NoWrite

\* the write that keeps the rows other operators stored in the meantime
WrittenTable_Merged(updated_df, snapshot, file) ==
    updated_df
      \o SelectSeq(read_csv(file),
                   LAMBDA r : \A i \in 1..Len(snapshot) :
                                 snapshot[i].registration_date
                                     # r.registration_date)

\* what to_csv writes: the DataFrame of the call, whatever the file holds
\* by now
WrittenTable(updated_df, snapshot, file) == updated_df

\* register_fingerprint up to the point before updated_df.to_csv
BeginRegister(p, user_id) ==
    /\ ops[p].pc = "idle"
    /\ ConcurrentTick
    /\ IF ReadRaises(biometric_file)
       THEN /\ Returns(p, "register", user_id, "registration_failed")
            /\ UNCHANGED scanner_templates
       ELSE
       LET biometric_df == read_csv(biometric_file)
           existing_registration ==
               Filter(biometric_df, LAMBDA r : CellEqStr(r.user_id, user_id))
       IN
       IF ~Empty(existing_registration)
       THEN /\ Returns(p, "register", user_id, "already_registered")
            /\ UNCHANGED scanner_templates
       ELSE
       \E c1 \in capture_fingerprint_data(demo_mode, scanner) :
         IF ~c1.success
         THEN /\ Returns(p, "register", user_id, "first_scan_failed")
              /\ UNCHANGED scanner_templates
         ELSE
         \E c2 \in capture_fingerprint_data(demo_mode, scanner) :
           IF ~c2.success
           THEN /\ Returns(p, "register", user_id, "second_scan_failed")
                /\ UNCHANGED scanner_templates
           ELSE
           IF ~verify_fingerprint_match(demo_mode, c1.data, c2.data)
           THEN /\ Returns(p, "register", user_id, "mismatch")
                /\ UNCHANGED scanner_templates
           ELSE
           \E st \in StoreTemplateOutcomes :
             LET scanner_position ==
                     IF st.stored THEN [kind |-> "slot", n |-> st.position]
                                  ELSE NoPosition
             IN  /\ scanner_templates' =
                        IF st.stored THEN scanner_templates \cup {st.position}
                                     ELSE scanner_templates
                 /\ Pends(p, "register", user_id, biometric_df,
                          Append(biometric_df,
                                 NewRegistration(user_id,
                                                 FinalData(c1.data, c2.data),
                                                 scanner_position, now')),
                          NoCell, 0)

\* authenticate_fingerprint up to the point before biometric_df.to_csv
BeginAuthenticate(p) ==
    /\ ops[p].pc = "idle"
    /\ ConcurrentTick
    /\ UNCHANGED scanner_templates
    /\ IF ReadRaises(biometric_file)
       THEN Returns(p, "authenticate", "", "authentication_error")
       ELSE
       LET biometric_df == read_csv(biometric_file)
       IN
       IF Empty(biometric_df)
       THEN Returns(p, "authenticate", "", "no_registered_fingerprints")
       ELSE
       \E c \in capture_fingerprint_data(demo_mode, scanner) :
         IF ~c.success
         THEN Returns(p, "authenticate", "", "capture_failed")
         ELSE
         LET found == SearchRows(biometric_df, c.data.hash, 1, 0, 0)
         IN  IF found.best = 0
             THEN Returns(p, "authenticate", "", "not_recognized")
             ELSE Pends(p, "authenticate", "", biometric_df,
                        UpdateUsage(biometric_df, found.best, now'),
                        biometric_df[found.best].user_id, found.score)

\* remove_fingerprint up to the point before biometric_df.to_csv
BeginRemove(p, user_id) ==
    /\ ops[p].pc = "idle"
    /\ ConcurrentTick
    /\ IF ReadRaises(biometric_file)
       THEN /\ Returns(p, "remove", user_id, "remove_failed")
            /\ UNCHANGED scanner_templates
       ELSE
       LET biometric_df == read_csv(biometric_file)
           user_data ==
               Filter(biometric_df, LAMBDA r : CellEqStr(r.user_id, user_id))
           remaining ==
               Filter(biometric_df, LAMBDA r : ~CellEqStr(r.user_id, user_id))
       IN
       IF Empty(user_data)
       THEN /\ Returns(p, "remove", user_id, "no_fingerprint_found")
            /\ UNCHANGED scanner_templates
       ELSE
       /\ \E deleted \in BOOLEAN :
            scanner_templates' =
                IF HardwareAvailable /\ deleted
                THEN scanner_templates
                       \ PositionToDelete(biometric_df,
                                          user_data[1].scanner_position)
                ELSE scanner_templates
       /\ Pends(p, "remove", user_id, biometric_df, remaining, NoCell, 0)

\* the to_csv of the call in progress and its return
Commit(p) ==
    /\ ops[p].pc = "writing"
    /\ UNCHANGED <<demo_mode, scanner, capture, now, scanner_templates,
                   last, session, credentials>>
    /\ LET call == ops[p]
           updated_df ==
               WrittenTable(call.pending, call.snapshot, biometric_file)
           done == CASE call.op = "register" -> "registered"
                     [] call.op = "authenticate" -> "authenticated"
                     [] OTHER -> "removed"
           failed == CASE call.op = "register" -> "registration_failed"
                       [] call.op = "authenticate" -> "authentication_error"
                       [] OTHER -> "remove_failed"
       IN  \E w \in WriteOutcomes(updated_df) :
             /\ Write(updated_df, w)
             /\ ops' = [ops EXCEPT ![p] =
                           [NoCall EXCEPT
                               !.returned = IF w.kind = "ok" THEN done
                                                             ELSE failed,
                               !.returned_user =
                                   IF call.op = "authenticate"
                                   THEN FormatCell(call.result)
                                   ELSE call.user_id]]

ConcurrentRegister ==
    \E p \in Operators, user_id \in UserIds : BeginRegister(p, user_id)
ConcurrentAuthenticate == \E p \in Operators : BeginAuthenticate(p)
ConcurrentRemove ==
    \E p \in Operators, user_id \in UserIds : BeginRemove(p, user_id)
ConcurrentCommit == \E p \in Operators : Commit(p)

NextConcurrent ==
    \/ ConcurrentRegister
    \/ ConcurrentAuthenticate
    \/ ConcurrentRemove
    \/ ConcurrentCommit

(***************************************************************************)
(* capture_fingerprint_data on a connected scanner, poll by poll, as the   *)
(* callers register_fingerprint and authenticate_fingerprint use it.       *)
(* The clock counts sleep periods (0.1 s).                                 *)
(***************************************************************************)
\* "timeout = 30" seconds
CaptureTimeout == 30
\* time.sleep(0.1): sleep periods per second
TicksPerSecond == 10
\* sleep periods one readImage() call can take
ReadImageTicks == {0, 2}
\* the clock of the model stops counting here, past the timeout
ClockCap == (CaptureTimeout + 1) * TicksPerSecond
\* captures the caller takes when none fails
CapturesOf(caller) == IF caller = "register" THEN 2 ELSE 1

NoCapture ==
    [caller |-> "", scan |-> 0, pc |-> "idle", elapsed |-> 0,
     outcome |-> "", message |-> ""]

\* start_time = time.time() at the head of capture number scan
StartCapture(caller, scan) ==
    [caller |-> caller, scan |-> scan, pc |-> "readImage", elapsed |-> 0,
     outcome |-> "", message |-> ""]

Elapse(elapsed, ticks) == Min(elapsed + ticks, ClockCap)

\* the steps inside a capture touch neither the store nor the adapter
InsideCapture ==
    UNCHANGED <<biometric_file, demo_mode, scanner, scanner_templates,
                now, fault_budget, last, ops, session, credentials>>

\* the timeout test that never fires
TimedOut_Never(elapsed) == FALSE

\* "time.time() - start_time > timeout"
TimedOut(elapsed) == elapsed > CaptureTimeout * TicksPerSecond

\* "while not self.scanner.readImage()": the call takes some time and
\* reports a finger, reports none, or raises
ReadImage ==
    /\ capture.pc = "readImage"
    /\ InsideCapture
    /\ \E ticks \in ReadImageTicks,
          reply \in {"finger", "no_finger", "raises"} :
         capture' =
            [capture EXCEPT
                !.elapsed = Elapse(@, ticks),
                !.pc = CASE reply = "finger" -> "process"
                         [] reply = "no_finger" -> "check"
                         [] OTHER -> "return",
                !.outcome = IF reply = "raises" THEN "capture_failed" ELSE @]

\* the timeout test inside the loop
CheckTimeout ==
    /\ capture.pc = "check"
    /\ InsideCapture
    /\ capture' =
         IF TimedOut(capture.elapsed)
         THEN [capture EXCEPT !.pc = "return", !.outcome = "timeout"]
         ELSE [capture EXCEPT !.pc = "sleep"]

\* time.sleep(0.1)
Sleep ==
    /\ capture.pc = "sleep"
    /\ InsideCapture
    /\ capture' = [capture EXCEPT !.pc = "readImage",
                                  !.elapsed = Elapse(@, 1)]

\* convertImage, downloadCharacteristics, hash and quality: the sample, or
\* an exception turned into "Fingerprint capture failed"
Process ==
    /\ capture.pc = "process"
    /\ InsideCapture
    /\ \E outcome \in {"captured", "capture_failed"} :
         capture' = [capture EXCEPT !.pc = "return", !.outcome = outcome]

\* the caller after the capture returned: register_fingerprint gives up on
\* a failed scan and takes the second scan after a good first one,
\* authenticate_fingerprint takes one scan
Return ==
    /\ capture.pc = "return"
    /\ InsideCapture
    /\ capture' =
         IF capture.outcome # "captured"
         THEN [capture EXCEPT
                  !.pc = "done",
                  !.message = IF capture.caller = "authenticate"
                              THEN "capture_failed"
                              ELSE IF capture.scan = 1
                                   THEN "first_scan_failed"
                                   ELSE "second_scan_failed"]
         ELSE IF capture.scan < CapturesOf(capture.caller)
              THEN StartCapture(capture.caller, capture.scan + 1)
              ELSE [capture EXCEPT !.pc = "done", !.message = "captured"]

NextCapture == ReadImage \/ CheckTimeout \/ Sleep \/ Process \/ Return

(***************************************************************************)
(* admin.py, "Clean Orphaned Biometric Data"                               *)
(***************************************************************************)
\* the header line init_biometric_storage, register_fingerprint and
\* setup_scanner_demo_data write
StoreColumns ==
    {"user_id", "fingerprint_hash", "template_data", "registration_date",
     "last_used", "quality_score", "scanner_position", "usage_count"}

\* the columns of the DataFrame read_csv returns for the file
Columns(file) == IF file.columns THEN StoreColumns ELSE {}

\* credentials_df["ID"].tolist(): the identities the cleanup takes as valid
ValidUserSets == {{"patient1"}, {"patient1", "7"}}

\* Series.isin(valid_users) for one cell
IsIn(cell, valid_users) == cell.kind = "str" /\ cell.s \in valid_users

\* what the page shows after the button handler: an exception other than
\* FileNotFoundError leaves the handler and reaches the page's
\* "except Exception" (admin.py:901), nothing having been written
CleanupResult(success, message, valid_users) ==
    [Result("cleanup", "", success, NoCell, message, 0, 0, NoData, NoData)
        EXCEPT !.valid_users = valid_users]

clean_orphaned_biometric_data(valid_users) ==
    /\ Tick
    /\ UNCHANGED scanner_templates
    /\ IF ReadRaises(biometric_file)
       THEN /\ last' = CleanupResult(FALSE, "page_error", valid_users)
            /\ NoWrite
       ELSE
       IF "ID" \notin Columns(biometric_file)
       THEN \* biometric_data["ID"] raises KeyError
            /\ last' = CleanupResult(FALSE, "page_error", valid_users)
            /\ NoWrite
       ELSE
       LET biometric_data == read_csv(biometric_file)
           orphaned_entries ==
               Filter(biometric_data, LAMBDA r : ~IsIn(r.ID, valid_users))
           cleaned_data ==
               Filter(biometric_data, LAMBDA r : IsIn(r.ID, valid_users))
       IN  IF Empty(orphaned_entries)
           THEN /\ last' = CleanupResult(TRUE, "no_orphans", valid_users)
                /\ NoWrite
           ELSE \E w \in WriteOutcomes(cleaned_data) :
                  /\ Write(cleaned_data, w)
                  /\ last' = IF w.kind = "ok"
                             THEN CleanupResult(TRUE, "cleaned", valid_users)
                             ELSE CleanupResult(FALSE, "page_error",
                                                valid_users)

(***************************************************************************)
(* The application: the session of one browser (st.session_state), the     *)
(* credentials registry, the two login forms, the fingerprint screen of    *)
(* a logged-in user and the administrator's Delete User.                   *)
(***************************************************************************)
\* main(): the keys of a fresh session
NoSession ==
    [logged_in |-> FALSE, user_id |-> NoCell, user_category |-> "",
     login_method |-> "", show_biometric_reg |-> FALSE]

\* credentials.csv: default accounts and an account with a numeric id that
\* the administrator added
DefaultCredentials ==
    <<[ID |-> "admin1", category |-> "admin"],
      [ID |-> "patient1", category |-> "user"],
      [ID |-> "7", category |-> "user"]>>

\* pd.read_csv("credentials.csv"): an ID column of numeric texts is int64
load_credentials(rows) ==
    LET numeric == /\ Len(rows) > 0
                   /\ \A i \in 1..Len(rows) : rows[i].ID \in NumericIds
    IN  [i \in 1..Len(rows) |->
            [rows[i] EXCEPT !.ID = ParseCell(@, numeric)]]

\* a Python str
Str(text) == [kind |-> "str", n |-> 0, s |-> text]

\* "if x:" for a user id (a str, a numpy integer or None)
Truthy(cell) ==
    CASE cell.kind = "int" -> cell.n # 0
      [] cell.kind = "str" -> cell.s # ""
      [] OTHER -> FALSE

\* user_id in credentials_df["ID"].values
InRegistry(cell, credentials_df) ==
    \E i \in 1..Len(credentials_df) : credentials_df[i].ID = cell

\* credentials_df[credentials_df["ID"] == user_id]["category"].values[0]
CategoryOf(cell, credentials_df) ==
    credentials_df[CHOOSE i \in 1..Len(credentials_df) :
                      /\ credentials_df[i].ID = cell
                      /\ \A j \in 1..(i - 1) : credentials_df[j].ID # cell
                  ].category

\* verify_login; password_ok: the hash of the typed password equals the
\* stored one
verify_login(user_id, password_ok, credentials_df) ==
    IF InRegistry(Str(user_id), credentials_df) /\ password_ok
    THEN [is_valid |-> TRUE,
          category |-> CategoryOf(Str(user_id), credentials_df)]
    ELSE [is_valid |-> FALSE, category |-> ""]

\* the lookup that takes an unknown user for a patient
get_user_category_DefaultsToUser(user_id, credentials_df) ==
    IF InRegistry(user_id, credentials_df)
    THEN CategoryOf(user_id, credentials_df)
    ELSE "user"

\* get_user_category; "" for None
get_user_category(user_id, credentials_df) ==
    IF InRegistry(user_id, credentials_df)
    THEN CategoryOf(user_id, credentials_df)
    ELSE ""

\* the application's screens touch the sensor and the store only through
\* the library
LibraryUntouched ==
    UNCHANGED <<biometric_file, fault_budget, scanner_templates, demo_mode,
                scanner, capture, ops, now, last>>

\* the user ids typed into the login form and picked in the Delete User box
LoginIds == UserIds

show_traditional_login(user_id, password_ok) ==
    /\ ~session.logged_in
    /\ LET checked ==
               verify_login(user_id, password_ok, load_credentials(credentials))
       IN  session' =
               IF checked.is_valid
               THEN [session EXCEPT !.logged_in = TRUE,
                                    !.user_id = Str(user_id),
                                    !.user_category = checked.category,
                                    !.login_method = "credentials"]
               ELSE session
    /\ UNCHANGED credentials
    /\ LibraryUntouched

\* the Scan Fingerprint button; the screen returns before it when the store
\* cannot be read or is empty
show_fingerprint_login ==
    /\ ~session.logged_in
    /\ now < MaxAppOps
    /\ ~ReadRaises(biometric_file)
    /\ ~Empty(read_csv(biometric_file))
    /\ authenticate_fingerprint(<<>>)
    /\ LET user_id == last'.result
           category ==
               IF Truthy(user_id)
               THEN get_user_category(user_id, load_credentials(credentials))
               ELSE ""
       IN  session' =
               IF Truthy(user_id) /\ category # ""
               THEN [session EXCEPT !.logged_in = TRUE,
                                    !.user_id = user_id,
                                    !.user_category = category,
                                    !.login_method = "fingerprint"]
               ELSE session
    /\ UNCHANGED credentials

\* the Logout button of the sidebar
Logout ==
    /\ session.logged_in
    /\ session' = [session EXCEPT !.logged_in = FALSE,
                                  !.user_id = NoCell,
                                  !.user_category = "",
                                  !.login_method = ""]
    /\ UNCHANGED credentials
    /\ LibraryUntouched

\* the Manage Fingerprint button of the sidebar
ManageFingerprint ==
    /\ session.logged_in
    /\ session.user_category \in {"admin", "doctor", "user"}
    /\ session' = [session EXCEPT !.show_biometric_reg = TRUE]
    /\ UNCHANGED credentials
    /\ LibraryUntouched

\* the Back to Dashboard button
BackToDashboard ==
    /\ session.logged_in
    /\ session.show_biometric_reg
    /\ session' = [session EXCEPT !.show_biometric_reg = FALSE]
    /\ UNCHANGED credentials
    /\ LibraryUntouched

\* the test that lets every logged-in session through
RegistrationAllowed_AnyMethod(s) == s.logged_in

\* the test at the head of show_fingerprint_registration
RegistrationAllowed(s) == s.logged_in /\ s.login_method = "credentials"

\* the screen's button: Remove Current Fingerprint when the user has a
\* template (get_user_fingerprints), Start Fingerprint Registration
\* otherwise
show_fingerprint_registration ==
    /\ session.logged_in
    /\ session.show_biometric_reg
    /\ RegistrationAllowed(session)
    /\ now < MaxAppOps
    /\ LET user_id == FormatCell(session.user_id)
           existing_fingerprints ==
               IF ReadRaises(biometric_file)
               THEN <<>>
               ELSE Filter(read_csv(biometric_file),
                           LAMBDA r : CellEqStr(r.user_id, user_id))
       IN  IF ~Empty(existing_fingerprints)
           THEN remove_fingerprint(user_id)
           ELSE register_fingerprint(user_id)
    /\ NoSessionChange

\* the administrator's page runs in a session of its own, which holds no
\* user_id
admin_id == "admin"

\* Delete User of the administrator's page
delete_user(user_to_delete) ==
    /\ \E i \in 1..Len(credentials) : credentials[i].ID = user_to_delete
    /\ user_to_delete # admin_id
    /\ LET credentials_df == load_credentials(credentials)
           selected ==
               credentials_df[CHOOSE i \in 1..Len(credentials) :
                                 credentials[i].ID = user_to_delete].ID
           kept == {i \in 1..Len(credentials) : credentials_df[i].ID # selected}
       IN  credentials' =
               SelectSeq(credentials,
                         LAMBDA row : \E i \in kept : credentials[i] = row)
    /\ IF ReadRaises(biometric_file) \/ "ID" \notin Columns(biometric_file)
       THEN \* read_csv or biometric_data["ID"] raises; "except: pass"
            NoWrite
       ELSE LET biometric_data == read_csv(biometric_file)
                kept_data ==
                    Filter(biometric_data,
                           LAMBDA r : ~CellEqStr(r.ID, user_to_delete))
            IN  \E w \in WriteOutcomes(kept_data) : Write(kept_data, w)
    /\ UNCHANGED <<now, scanner_templates, demo_mode, scanner, capture, ops,
                   last, session>>

(***************************************************************************)
(* Specification                                                           *)
(***************************************************************************)
\* what the single connection attempt of the constructor meets: the
\* pyfingerprint import failed, PyFingerprint(...) raised, verifyPassword()
\* returned False, getTemplateCount()/getStorageCapacity() raised, or the
\* whole handshake went through
InitOutcomes ==
    {"no_library", "connect_raises", "wrong_password", "info_raises",
     "connected"}

\* the handle is kept after a failed handshake
init_scanner_connection_KeepsHandle(outcome) ==
    [scanner |-> IF outcome = "no_library" THEN "None" ELSE "PyFingerprint",
     demo_mode |-> outcome # "connected",
     success |-> outcome = "connected",
     attempts |-> IF outcome = "no_library" THEN 0 ELSE 1]

\* init_scanner_connection: the adapter state it leaves and what it returns
init_scanner_connection(outcome) ==
    IF outcome = "no_library"
    THEN [scanner |-> "None", demo_mode |-> TRUE, success |-> FALSE,
          attempts |-> 0]
    ELSE IF outcome = "connected"
         THEN [scanner |-> "PyFingerprint", demo_mode |-> FALSE,
               success |-> TRUE, attempts |-> 1]
         ELSE \* except Exception: self.scanner = None, self.demo_mode = True
              [scanner |-> "None", demo_mode |-> TRUE, success |-> FALSE,
               attempts |-> 1]

\* BiometricAuth.__init__: the store file exists with its header, and the
\* adapter is either connected or in demo mode; budget store writes of the
\* run will fail
InitWith(budget) ==
    /\ biometric_file = [columns |-> TRUE, rows |-> <<>>]
    /\ \E outcome \in InitOutcomes :
         LET connection == init_scanner_connection(outcome)
         IN  /\ demo_mode = connection.demo_mode
             /\ scanner = connection.scanner
             /\ last = [Result("init", "", connection.success, NoCell,
                               outcome, 0, 0, NoData, NoData)
                           EXCEPT !.attempts = connection.attempts]
    /\ scanner_templates = {}
    /\ now = 0
    /\ fault_budget = budget
    /\ capture = NoCapture
    /\ ops = [p \in Operators |-> NoCall]
    /\ session = NoSession
    /\ credentials = DefaultCredentials

\* every store write completes
Init == InitWith(0)

\* up to MaxWriteFaults store writes fail
InitFaults == InitWith(MaxWriteFaults)

Register ==
    /\ \E user_id \in UserIds : register_fingerprint(user_id)
    /\ NoSessionChange
Authenticate ==
    /\ \E captured_hash \in {<<>>} \cup CapturedHashes :
         authenticate_fingerprint(captured_hash)
    /\ NoSessionChange
Remove ==
    /\ \E user_id \in UserIds : remove_fingerprint(user_id)
    /\ NoSessionChange
SetupDemo == setup_scanner_demo_data /\ NoSessionChange

Next == Register \/ Authenticate \/ Remove \/ SetupDemo

\* the runs in which every store write completes
Spec == Init /\ [][Next]_vars

\* the administrator's orphan cleanup next to the four operations
CleanOrphans ==
    /\ \E valid_users \in ValidUserSets :
         clean_orphaned_biometric_data(valid_users)
    /\ NoSessionChange

NextAdmin == Next \/ CleanOrphans

SpecAdmin == Init /\ [][NextAdmin]_vars

\* one register_fingerprint or authenticate_fingerprint on a connected
\* scanner, up to the point where its captures are done
InitCapture ==
    /\ biometric_file = [columns |-> TRUE, rows |-> <<>>]
    /\ demo_mode = init_scanner_connection("connected").demo_mode
    /\ scanner = init_scanner_connection("connected").scanner
    /\ scanner_templates = {}
    /\ now = 0
    /\ fault_budget = 0
    /\ ops = [p \in Operators |-> NoCall]
    /\ session = NoSession
    /\ credentials = DefaultCredentials
    /\ \E caller \in {"register", "authenticate"} :
         /\ capture = StartCapture(caller, 1)
         /\ last = Result(caller, "", FALSE, NoCell, "", 0, 0, NoData, NoData)

\* the code of the loop runs on: no step of it waits for anything
SpecCapture == InitCapture /\ [][NextCapture]_vars /\ WF_vars(NextCapture)

\* the operations of several operators interleaved on one store file; the
\* constructor met no library, or a scanner that answered
InitConcurrent ==
    /\ Init
    /\ last.message \in {"no_library", "connected"}

SpecConcurrent == InitConcurrent /\ [][NextConcurrent]_vars

\* the runs in which up to MaxWriteFaults store writes fail
SpecFaults == InitFaults /\ [][Next]_vars

\* one browser session of the application next to the administrator's page
CredentialLogin ==
    \E user_id \in LoginIds, password_ok \in BOOLEAN :
        show_traditional_login(user_id, password_ok)
FingerprintLogin == show_fingerprint_login
FingerprintScreen == show_fingerprint_registration
DeleteUser == \E user_to_delete \in LoginIds : delete_user(user_to_delete)

NextApp ==
    \/ CredentialLogin
    \/ FingerprintLogin
    \/ Logout
    \/ ManageFingerprint
    \/ BackToDashboard
    \/ FingerprintScreen
    \/ DeleteUser

\* the constructor met no library, or a scanner that answered
InitApp ==
    /\ Init
    /\ last.message \in {"no_library", "connected"}

SpecApp == InitApp /\ [][NextApp]_vars

(***************************************************************************)
(* The two pure functions of the capture pipeline applied to inputs of     *)
(* every shape: _verify_fingerprint_match and _calculate_quality_score.    *)
(***************************************************************************)
\* ten-entry vectors: VecY is within the tolerance of VecX at exactly seven
\* positions (one of them at the tolerance itself), VecZ at exactly six
\* (one position misses the tolerance by one)
VecX == <<10, 20, 30, 40, 50, 60, 70, 80, 90, 100>>
VecY == <<20, 20, 30, 40, 50, 60, 70, 180, 190, 200>>
VecZ == <<21, 20, 30, 40, 50, 60, 70, 180, 190, 200>>
\* a shorter vector and an empty one
VecShort == <<10, 20, 30>>
VerifyVecs == {VecA, VecB, VecC, VecX, VecY, VecZ, VecShort, <<>>}
VerifyQualities == {70, 71, 95}
VerifySamples ==
    {[characteristics |-> v, hash |-> <<>>, quality_score |-> q] :
        v \in VerifyVecs, q \in VerifyQualities}

\* arguments of _calculate_quality_score: lists and tuples of every filling,
\* and values that are neither (None, a string, an array)
QualityInputs ==
    {[kind |-> k, v |-> v] :
        k \in {"list", "tuple"},
        v \in {VecA, VecB, VecX, VecShort, <<>>, <<0, 0, 0>>, <<0, 7, 0>>,
               <<0, 0, 1, 2, 3, 4, 5>>}}
    \cup {[kind |-> "other", v |-> <<>>]}

\* _calculate_quality_score with the isinstance test
QualityOf(x) ==
    IF x.kind \in {"list", "tuple"}
    THEN calculate_quality_score(x.v)
    ELSE DefaultQuality

\* one call of _verify_fingerprint_match
VerifyMatch ==
    /\ \E data1 \in VerifySamples, data2 \in VerifySamples :
         last' = Result("verify", "",
                        verify_fingerprint_match(demo_mode, data1, data2),
                        NoCell, "", 0, 0, data1, data2)
    /\ UNCHANGED <<biometric_file, demo_mode, scanner, scanner_templates,
                   now, fault_budget, capture, ops, session, credentials>>

\* one call of _calculate_quality_score
QualityScore ==
    /\ \E x \in QualityInputs :
         last' = Result("quality", "", TRUE, NoCell, x.kind, 0, QualityOf(x),
                        [characteristics |-> x.v, hash |-> <<>>,
                         quality_score |-> QualityOf(x)],
                        NoData)
    /\ UNCHANGED <<biometric_file, demo_mode, scanner, scanner_templates,
                   now, fault_budget, capture, ops, session, credentials>>

NextFunctions == VerifyMatch \/ QualityScore

SpecFunctions == Init /\ [][NextFunctions]_vars

(***************************************************************************)
(* Properties                                                              *)
(***************************************************************************)
\* the rows of the store that carry the user id u
RowsOfUser(rows, u) == {i \in 1..Len(rows) : rows[i].user_id = u}

\* this step is one call of operation op
Called(op) == now' = now + 1 /\ last'.op = op

\* the store is a readable table
Readable == biometric_file.columns

\* C1: after any sequence of register, authenticate, remove and setup calls
\* the store holds at most one template row per user id.
C1_AtMostOneRowPerUser ==
    \A i, j \in 1..Len(biometric_file.rows) :
        biometric_file.rows[i].user_id = biometric_file.rows[j].user_id
            => i = j

TextOf(cell) == IF cell.kind = "int" THEN FormatInt(cell.n) ELSE cell.s

\* C3: a successful authentication that resolves to user u increases the
\* usage_count of u's stored template by exactly 1, sets its last_used to the
\* current time, persists that, and leaves every other user's rows unchanged.
C3_UsageIncrementedByOne ==
    [][(Called("authenticate") /\ last'.success)
       => /\ Len(biometric_file'.rows) = Len(biometric_file.rows)
          /\ RowsOfUser(biometric_file.rows, TextOf(last'.result)) # {}
          /\ \A i \in 1..Len(biometric_file.rows) :
               IF biometric_file.rows[i].user_id = TextOf(last'.result)
               THEN biometric_file'.rows[i] =
                        [biometric_file.rows[i] EXCEPT
                            !.usage_count = @ + 1, !.last_used = now']
               ELSE biometric_file'.rows[i] = biometric_file.rows[i]
      ]_vars

\* C4: a failed authentication returns None with a reason and leaves the
\* stored templates exactly as they were.
C4_FailedAuthChangesNothing ==
    [][(Called("authenticate") /\ ~last'.success)
       => /\ last'.result = NoCell
          /\ last'.message # ""
          /\ biometric_file' = biometric_file
      ]_vars

\* C5: a registration that aborts on a failed first capture, a failed second
\* capture or the consistency check creates or modifies no row and writes no
\* hardware slot; a failed first capture aborts before a second capture.
C5_AbortLeavesNoTrace ==
    [][(/\ Called("register")
        /\ last'.message \in {"first_scan_failed", "second_scan_failed",
                              "mismatch"})
       => /\ ~last'.success
          /\ biometric_file' = biometric_file
          /\ scanner_templates' = scanner_templates
          /\ last'.message = "first_scan_failed" => last'.captures = 1
      ]_vars

\* a registration aborted on the consistency check in hardware mode while the
\* store and the sensor hold a template
C5_Witness ==
    /\ last.op = "register"
    /\ last.message = "mismatch"
    /\ ~demo_mode
    /\ Len(biometric_file.rows) > 0
    /\ scanner_templates # {}

\* C6: authentication against a store with no templates returns None with a
\* "not recognized"-style reason at once, without a capture and without an
\* error, in either adapter mode.
C6_EmptyStoreNotRecognized ==
    [][(/\ Called("authenticate")
        /\ Readable
        /\ Len(biometric_file.rows) = 0)
       => /\ ~last'.success
          /\ last'.result = NoCell
          /\ last'.message = "no_registered_fingerprints"
          /\ last'.captures = 0
          /\ biometric_file' = biometric_file
      ]_vars

\* an authentication against the empty store in hardware mode
C6_Witness ==
    /\ last.op = "authenticate"
    /\ last.message = "no_registered_fingerprints"
    /\ ~demo_mode
    /\ Len(biometric_file.rows) = 0

\* the row a successful registration appended
NewRow(rows) == rows[Len(rows)]

\* C7: a successful registration persists exactly one new row, built from the
\* sample with the higher quality score (the first on a tie), with
\* last_used = "Never" and usage_count = 0.
C7_StoresBetterSample ==
    [][(Called("register") /\ last'.success)
       => LET d1 == last'.data1
              d2 == last'.data2
              kept == IF d1.quality_score >= d2.quality_score THEN d1 ELSE d2
              old == biometric_file.rows
              new == biometric_file'.rows
          IN  /\ Len(new) = Len(old) + 1
              /\ SubSeq(new, 1, Len(old)) = old
              /\ NewRow(new).user_id = last'.user_id
              /\ NewRow(new).quality_score = kept.quality_score
              /\ NewRow(new).quality_score >= d1.quality_score
              /\ NewRow(new).quality_score >= d2.quality_score
              /\ NewRow(new).fingerprint_hash = kept.hash
              /\ NewRow(new).template_data = kept.characteristics
              /\ NewRow(new).last_used = Never
              /\ NewRow(new).usage_count = 0
      ]_vars

\* a registration succeeded whose second sample was the better one
C7_Witness ==
    /\ last.op = "register"
    /\ last.success
    /\ last.data2.quality_score > last.data1.quality_score
    /\ last.data2.hash # last.data1.hash
    /\ Len(biometric_file.rows) > 0
    /\ NewRow(biometric_file.rows).fingerprint_hash = last.data2.hash

\* the first row of rows whose signature is hash (0 if there is none)
FirstWithHash(rows, hash) ==
    IF \E i \in 1..Len(rows) : rows[i].fingerprint_hash = hash
    THEN CHOOSE i \in 1..Len(rows) :
            /\ rows[i].fingerprint_hash = hash
            /\ \A j \in 1..(i - 1) : rows[j].fingerprint_hash # hash
    ELSE 0

\* percentage of equal positions of two signatures
SignatureAgreement(h1, h2) ==
    (Cardinality({k \in 1..Len(h1) : k <= Len(h2) /\ h1[k] = h2[k]}) * 100)
        \div Len(h1)

\* C8: when the sample's signature equals a stored signature, authentication
\* (unless the store write fails) returns the identity of that template with
\* score 100, whatever the row order and whatever other templates score at
\* or above the proximity threshold.
C8_ExactSignatureWins ==
    [][(/\ Called("authenticate")
        /\ last'.message \in {"authenticated", "not_recognized"}
        /\ FirstWithHash(biometric_file.rows, last'.data1.hash) # 0)
       => /\ last'.success
          /\ last'.score = 100
          /\ TextOf(last'.result) =
                biometric_file.rows[
                    FirstWithHash(biometric_file.rows, last'.data1.hash)].user_id
      ]_vars

\* an exact hit on a row that follows a row of another user whose signature
\* agrees with the sample on at least 80% of the positions
C8_Witness ==
    /\ last.op = "authenticate"
    /\ last.success
    /\ last.score = 100
    /\ \E i, j \in 1..Len(biometric_file.rows) :
         /\ i < j
         /\ biometric_file.rows[j].fingerprint_hash = last.data1.hash
         /\ biometric_file.rows[j].user_id = TextOf(last.result)
         /\ biometric_file.rows[i].user_id # TextOf(last.result)
         /\ biometric_file.rows[i].fingerprint_hash # last.data1.hash
         /\ SignatureAgreement(biometric_file.rows[i].fingerprint_hash,
                               last.data1.hash) >= 80

\* C9: usage_count and last_used of a stored template change only in a
\* successful authentication; no registration and no failed operation
\* changes them.
C9_UsageChangedOnlyBySuccessfulAuth ==
    [][\A i \in 1..Len(biometric_file.rows),
          j \in 1..Len(biometric_file'.rows) :
          (/\ biometric_file.rows[i].user_id = biometric_file'.rows[j].user_id
           /\ biometric_file.rows[i].registration_date
                  = biometric_file'.rows[j].registration_date
           /\ \/ biometric_file.rows[i].usage_count
                     # biometric_file'.rows[j].usage_count
              \/ biometric_file.rows[i].last_used
                     # biometric_file'.rows[j].last_used)
          => (last'.op = "authenticate" /\ last'.success)
      ]_vars

\* the fraction of positions, in percent, at which the characteristics of a
\* sample are within the tolerance of a stored raw template
RawAgreement(sample, template) ==
    IF Len(sample) = 0 \/ Len(sample) # Len(template)
    THEN 0
    ELSE (Cardinality({k \in 1..Len(sample) :
                          sample[k] - template[k] <= 10
                          /\ template[k] - sample[k] <= 10}) * 100)
            \div Len(sample)

\* C10: a captured sample whose characteristics agree position-wise within
\* tolerance with an enrolled template's raw data on at least 80% of the
\* positions is resolved to that identity, even though its signature differs.
C10_SameFingerMatchesByRawData ==
    [][(/\ Called("authenticate")
        /\ last'.captures = 1
        /\ last'.message \in {"authenticated", "not_recognized"}
        /\ \E i \in 1..Len(biometric_file.rows) :
              RawAgreement(last'.data1.characteristics,
                           biometric_file.rows[i].template_data) >= 80)
       => /\ last'.success
          /\ \E i \in 1..Len(biometric_file.rows) :
               /\ biometric_file.rows[i].user_id = TextOf(last'.result)
               /\ RawAgreement(last'.data1.characteristics,
                               biometric_file.rows[i].template_data) >= 80
      ]_vars

\* the rows of the store whose user id is outside the identity set v
Orphans(rows, v) == {i \in 1..Len(rows) : rows[i].user_id \notin v}

\* C11: an orphan cleanup with the valid-identity set V removes every row
\* whose user id is not in V and no row whose user id is in V; without
\* orphans the store content is unchanged.
C11_CleanupRemovesExactlyOrphans ==
    [][(Called("cleanup") /\ Readable)
       => /\ biometric_file'.columns
          /\ biometric_file'.rows =
                SelectSeq(biometric_file.rows,
                          LAMBDA r : r.user_id \in last'.valid_users)
      ]_vars

C12_ModeFixedAtConstruction ==
    [][/\ demo_mode' = demo_mode
       /\ scanner' = scanner
       /\ demo_mode
            => /\ last'.message \notin {"first_scan_failed",
                                        "second_scan_failed", "capture_failed"}
               /\ scanner_templates' = scanner_templates
               /\ (last'.op = "register" /\ last'.message = "registered")
                    => /\ last'.captures = 2
                       /\ NewRow(biometric_file'.rows).scanner_position
                              = NoPosition
      ]_vars

\* in demo mode a register took its two captures and a later authenticate
\* its one capture
C12_Witness ==
    /\ demo_mode
    /\ scanner = "None"
    /\ last.op = "authenticate"
    /\ last.captures = 1
    /\ Len(biometric_file.rows) > 0

\* C13: the constructor's single connection attempt ends in connected mode
\* with a scanner handle exactly when the whole handshake succeeded; a
\* missing library, a raising connection, a failed password check or a
\* raising status query all end in demo mode without a handle, and never
\* with more than one attempt.
C13_FailedInitFallsBackToDemo ==
    last.op = "init"
        => /\ last.message \in InitOutcomes
           /\ last.attempts <= 1
           /\ IF last.message = "connected"
              THEN ~demo_mode /\ scanner = "PyFingerprint" /\ last.success
              ELSE demo_mode /\ scanner = "None" /\ ~last.success

\* the password check of the constructor failed
C13_Witness ==
    /\ last.op = "init"
    /\ last.message = "wrong_password"
    /\ last.attempts = 1
    /\ demo_mode

\* C14: on a connected scanner every capture ends, with a sample once the
\* sensor reported a finger or with the timeout failure only after the
\* 30-second window has elapsed; a failed capture is not retried, so
\* register_fingerprint takes at most two captures (one when the first
\* fails) and authenticate_fingerprint one.
C14_CaptureTerminates ==
    /\ <>(capture.pc = "done")
    /\ [](/\ capture.outcome = "timeout"
              => capture.elapsed > CaptureTimeout * TicksPerSecond
          /\ capture.scan <= CapturesOf(capture.caller)
          /\ capture.pc = "done"
              => /\ capture.message = "first_scan_failed"
                    => capture.scan = 1
                 /\ capture.message = "captured"
                    <=> capture.outcome = "captured"
                 /\ capture.message = "captured"
                    => capture.scan = CapturesOf(capture.caller))

\* a registration whose second scan timed out
C14_Witness ==
    /\ capture.pc = "done"
    /\ capture.caller = "register"
    /\ capture.scan = 2
    /\ capture.outcome = "timeout"
    /\ capture.message = "second_scan_failed"

\* C16: the stored signature of every template row, however the row was
\* created, is the digest of the row's stored raw template data (so rows
\* with equal raw data have equal signatures).
C16_SignatureIsDigestOfTemplate ==
    \A i \in 1..Len(biometric_file.rows) :
        /\ biometric_file.rows[i].fingerprint_hash
               = Digest(biometric_file.rows[i].template_data)
        /\ \A j \in 1..Len(biometric_file.rows) :
               biometric_file.rows[i].template_data
                   = biometric_file.rows[j].template_data
               => biometric_file.rows[i].fingerprint_hash
                      = biometric_file.rows[j].fingerprint_hash

\* the reasons each operation gives for a failure
FailureReasons(op) ==
    CASE op = "register" ->
            {"registration_failed", "already_registered", "first_scan_failed",
             "second_scan_failed", "mismatch"}
      [] op = "authenticate" ->
            {"authentication_error", "no_registered_fingerprints",
             "capture_failed", "not_recognized"}
      [] op = "remove" -> {"remove_failed", "no_fingerprint_found"}
      [] OTHER -> {}

\* C18: every call of register_fingerprint, authenticate_fingerprint and
\* remove_fingerprint returns; a call that did not succeed returns the
\* failure indicator together with one of the operation's reasons (capture
\* failure, timeout, mismatch, duplicate, no match, unknown user, store I/O
\* error), never an empty reason.
C18_FailuresCarryReason ==
    [][(Called("register") \/ Called("authenticate") \/ Called("remove"))
       => IF last'.success
          THEN last'.message \in {"registered", "authenticated", "removed"}
          ELSE /\ last'.result = NoCell
               /\ last'.message # ""
               /\ last'.message \in FailureReasons(last'.op)
      ]_vars

\* a removal failed on a store that cannot be read
C18_Witness ==
    /\ last.op = "remove"
    /\ ~last.success
    /\ last.message = "remove_failed"
    /\ ~Readable

\* C19: when register, authenticate or remove fails, the persisted store is
\* the complete old table or the complete new table.
C19_WritesAreAtomic ==
    [][((Called("register") \/ Called("authenticate") \/ Called("remove"))
        /\ ~last'.success)
       => \/ biometric_file' = biometric_file
          \/ /\ biometric_file'.columns
             /\ CASE last'.op = "register" ->
                       /\ Len(biometric_file'.rows)
                              = Len(biometric_file.rows) + 1
                       /\ SubSeq(biometric_file'.rows, 1,
                                 Len(biometric_file.rows))
                              = biometric_file.rows
                  [] last'.op = "authenticate" ->
                       Len(biometric_file'.rows) = Len(biometric_file.rows)
                  [] OTHER ->
                       biometric_file'.rows =
                          SelectSeq(biometric_file.rows,
                                    LAMBDA r : r.user_id # last'.user_id)
      ]_vars


(***************************************************************************)
(* Interleaved operators                                                   *)
(***************************************************************************)
\* operator p writes its DataFrame in this step
Commits(p) == ops[p].pc = "writing" /\ ops'[p].pc = "idle"

\* a stored row is told from every other by its user and enrollment time
SameTemplate(r, q) ==
    /\ r.user_id = q.user_id
    /\ r.registration_date = q.registration_date

\* C20: nothing locks the store: the write of a call puts the DataFrame the
\* call built from its own earlier read in place of the whole file, so no
\* row survives it but the rows the call read and the row the call enrols,
\* and whatever other operators committed after that read is gone
C20_WriteReplacesStoreWithOwnSnapshot ==
    [][\A p \in Operators :
          Commits(p) =>
              /\ biometric_file'.rows = CsvRows(ops[p].pending)
              /\ \A i \in 1..Len(biometric_file'.rows) :
                    \/ \E k \in 1..Len(ops[p].snapshot) :
                          SameTemplate(biometric_file'.rows[i],
                                       ops[p].snapshot[k])
                    \/ /\ ops[p].op = "register"
                       /\ biometric_file'.rows[i].user_id = ops[p].user_id]_vars

\* both operators enrolled a different user with success, and the store
\* holds no row of the user operator A enrolled
C20_Witness ==
    /\ \A p \in Operators :
          ops[p].pc = "idle" /\ ops[p].returned = "registered"
    /\ ops["A"].returned_user # ops["B"].returned_user
    /\ \A i \in 1..Len(biometric_file.rows) :
          biometric_file.rows[i].user_id # ops["A"].returned_user

\* the rows whose usage the call of operator p counted up in its DataFrame
ResolvedTo(p) ==
    {k \in 1..Len(ops[p].snapshot) :
        /\ ops[p].op = "authenticate"
        /\ CsvRows(ops[p].pending)[k].usage_count
               # ops[p].snapshot[k].usage_count}

\* C15: for as long as a template stays enrolled its usage_count never
\* decreases, and it goes up by one exactly in the steps that complete a
\* successful authentication resolved to it, whatever the interleaving
C15_UsageCountCountsMatches ==
    [][\A i \in 1..Len(biometric_file.rows),
          j \in 1..Len(biometric_file'.rows) :
          SameTemplate(biometric_file.rows[i], biometric_file'.rows[j]) =>
              biometric_file'.rows[j].usage_count
                = biometric_file.rows[i].usage_count
                  + (IF \E p \in Operators :
                           /\ Commits(p)
                           /\ \E k \in ResolvedTo(p) :
                                 SameTemplate(ops[p].snapshot[k],
                                              biometric_file.rows[i])
                     THEN 1 ELSE 0)]_vars


(***************************************************************************)
(* Proximity search                                                        *)
(***************************************************************************)
\* the earliest row among the rows whose signature agrees best with hash
TopScoring(rows, hash) ==
    CHOOSE i \in 1..Len(rows) :
        /\ \A j \in 1..Len(rows) :
              SignatureAgreement(rows[j].fingerprint_hash, hash)
                <= SignatureAgreement(rows[i].fingerprint_hash, hash)
        /\ \A j \in 1..(i - 1) :
              SignatureAgreement(rows[j].fingerprint_hash, hash)
                < SignatureAgreement(rows[i].fingerprint_hash, hash)

\* C21: when no stored signature equals the sample's signature, the call
\* returns the identity of the highest-scoring template, the earliest row
\* among equal highest scores, exactly when that score is at least 80, and
\* otherwise returns None with the "not recognized" reason.
C21_BestCandidateAtThreshold ==
    [][(/\ Called("authenticate")
        /\ last'.message \in {"authenticated", "not_recognized"}
        /\ FirstWithHash(biometric_file.rows, last'.data1.hash) = 0)
       => LET rows == biometric_file.rows
              top == TopScoring(rows, last'.data1.hash)
              top_score ==
                  SignatureAgreement(rows[top].fingerprint_hash,
                                     last'.data1.hash)
          IN  IF top_score >= 80
              THEN /\ last'.success
                   /\ last'.score = top_score
                   /\ TextOf(last'.result) = rows[top].user_id
              ELSE /\ ~last'.success
                   /\ last'.result = NoCell
                   /\ last'.message = "not_recognized"
      ]_vars

\* a sample that equals no stored signature was resolved with score 80 to
\* the first of two rows of different users that both score 80
C21_Witness ==
    /\ last.op = "authenticate"
    /\ last.success
    /\ last.score = 80
    /\ \E i, j \in 1..Len(biometric_file.rows) :
         /\ i < j
         /\ biometric_file.rows[i].user_id = TextOf(last.result)
         /\ biometric_file.rows[j].user_id # TextOf(last.result)
         /\ SignatureAgreement(biometric_file.rows[i].fingerprint_hash,
                               last.data1.hash) = 80
         /\ SignatureAgreement(biometric_file.rows[j].fingerprint_hash,
                               last.data1.hash) = 80


(***************************************************************************)
(* Consistency check and quality score                                     *)
(***************************************************************************)
\* number of positions at which two vectors of equal length differ by at
\* most 10
Within10(chars1, chars2) ==
    Cardinality({j \in 1..Len(chars1) :
                    chars1[j] - chars2[j] <= 10 /\ chars2[j] - chars1[j] <= 10})

\* C22: the consistency check accepts two samples exactly when, in demo
\* mode, both quality scores are strictly greater than 70 and, in hardware
\* mode, the vectors have equal length and at least 0.7 of the positions
\* differ by at most 10; a check that raises (no position to divide by)
\* counts as a mismatch.
C22_ConsistencyCriterion ==
    last.op = "verify" =>
        (last.success <=>
            IF demo_mode
            THEN last.data1.quality_score > 70 /\ last.data2.quality_score > 70
            ELSE /\ Len(last.data1.characteristics)
                      = Len(last.data2.characteristics)
                 /\ Len(last.data1.characteristics) # 0
                 /\ 10 * Within10(last.data1.characteristics,
                                  last.data2.characteristics)
                      >= 7 * Len(last.data1.characteristics))

\* hardware mode: two ten-entry vectors within 10 of each other at exactly
\* seven positions were accepted, with a quality of 70 on one of them
C22_Witness ==
    /\ last.op = "verify"
    /\ ~demo_mode
    /\ last.success
    /\ Len(last.data1.characteristics) = 10
    /\ Within10(last.data1.characteristics, last.data2.characteristics) = 7
    /\ last.data1.quality_score = 70

C24_RemoveDeletesRowsOfUser ==
    [][/\ (Called("remove") /\ Readable) =>
             IF RowsOfUser(biometric_file.rows, last'.user_id) # {}
             THEN /\ last'.success
                  /\ biometric_file'.rows =
                         SelectSeq(biometric_file.rows,
                                   LAMBDA r : r.user_id # last'.user_id)
             ELSE /\ ~last'.success
                  /\ biometric_file' = biometric_file
       /\ (/\ Called("register")
           /\ Readable
           /\ RowsOfUser(biometric_file.rows, last'.user_id) = {})
              => last'.message # "already_registered"
      ]_vars


(***************************************************************************)
(* Scanner slots                                                           *)
(***************************************************************************)
\* the rows that record scanner slot s as their scanner_position
RowsAtSlot(rows, s) ==
    {i \in 1..Len(rows) : rows[i].scanner_position = [kind |-> "slot", n |-> s]}

\* C26: in connected mode a successful remove_fingerprint(u) for a template
\* stored at scanner slot s frees slot s, for every slot storeTemplate can
\* return, slot 0 included, whatever form the stored value is read back in.
C26_RemoveFreesSlot ==
    [][(/\ Called("remove")
        /\ last'.success
        /\ HardwareAvailable)
       => \A s \in 0..(SlotCapacity - 1) :
             (\E i \in RowsOfUser(biometric_file.rows, last'.user_id) :
                 i \in RowsAtSlot(biometric_file.rows, s))
                => s \notin scanner_templates'
      ]_vars

\* C27: in connected mode, after any register and remove calls, failed
\* store writes included, every occupied scanner slot is the
\* scanner_position of exactly one stored row.
C27_OccupiedSlotsHaveOneRow ==
    HardwareAvailable =>
        \A s \in scanner_templates :
            Cardinality(RowsAtSlot(biometric_file.rows, s)) = 1

(***************************************************************************)
(* Demo enrollment                                                         *)
(***************************************************************************)
\* C29: in demo mode register_fingerprint for a user without a stored
\* template never aborts on a capture or on the consistency check: it
\* succeeds and adds exactly one row for the user, of quality 75..95.
C29_DemoEnrollmentSucceeds ==
    [][(/\ Called("register")
        /\ Readable
        /\ demo_mode
        /\ RowsOfUser(biometric_file.rows, last'.user_id) = {})
       => /\ last'.success
          /\ Len(biometric_file'.rows) = Len(biometric_file.rows) + 1
          /\ RowsOfUser(biometric_file'.rows, last'.user_id)
                = {Len(biometric_file'.rows)}
          /\ NewRow(biometric_file'.rows).quality_score \in 75..95
      ]_vars

\* a demo enrollment of a second user just succeeded
C29_Witness ==
    /\ demo_mode
    /\ last.op = "register"
    /\ last.success
    /\ Len(biometric_file.rows) = 2
    /\ RowsOfUser(biometric_file.rows, last.user_id) = {2}


(***************************************************************************)
(* Sessions and the credentials registry                                   *)
(***************************************************************************)
\* the registry rows of user id u
RegistryRows(rows, u) == {i \in 1..Len(rows) : rows[i].ID = u}

\* C25: once Delete User has completed for a user, the fingerprint store
\* holds no template row of that user.
C25_DeletedUserHasNoTemplate ==
    [][\A u \in LoginIds :
          (/\ RegistryRows(credentials, u) # {}
           /\ RegistryRows(credentials', u) = {})
             => RowsOfUser(biometric_file'.rows, u) = {}
      ]_vars

\* this step is a fingerprint login that opens the session
FingerprintLogsIn ==
    /\ ~session.logged_in
    /\ session'.logged_in
    /\ session'.login_method = "fingerprint"

\* C28: a fingerprint login opens the session only when
\* authenticate_fingerprint resolved a user id and that id is in the
\* credentials registry, and then with the id and the category of that
\* registry entry; a match on a template whose user is not in the registry,
\* and a failed authentication, leave the session logged out.
C28_FingerprintLoginNeedsRegistryEntry ==
    [][/\ FingerprintLogsIn =>
             (/\ Called("authenticate")
              /\ last'.success
              /\ session'.user_id = last'.result
              /\ \E i \in RegistryRows(credentials, TextOf(last'.result)) :
                    session'.user_category = credentials[i].category)
       /\ (/\ Called("authenticate")
           /\ ~session.logged_in
           /\ \/ ~last'.success
              \/ RegistryRows(credentials, TextOf(last'.result)) = {})
              => ~session'.logged_in
      ]_vars

\* a session opened by a fingerprint match
C28_Witness ==
    /\ session.logged_in
    /\ session.login_method = "fingerprint"
    /\ last.op = "authenticate"
    /\ last.success
    /\ session.user_id = last.result

\* C30: a logged-in session has its user id and category set and its
\* method is "credentials" or "fingerprint"; logout resets the four keys
\* together; and the fingerprint screen registers and removes only for a
\* session logged in with credentials, on that session's own user id.
C30_SessionDiscipline ==
    /\ [](session.logged_in =>
             /\ Truthy(session.user_id)
             /\ session.user_category # ""
             /\ session.login_method \in {"credentials", "fingerprint"})
    /\ [][/\ (session.logged_in /\ ~session'.logged_in) =>
                (/\ session'.user_id = NoCell
                 /\ session'.user_category = ""
                 /\ session'.login_method = "")
          /\ (Called("register") \/ Called("remove")) =>
                (/\ session.logged_in
                 /\ session.login_method = "credentials"
                 /\ last'.user_id = TextOf(session.user_id))
         ]_vars

\* the screen removed the template of the user logged in with credentials
C30_Witness ==
    /\ session.logged_in
    /\ session.login_method = "credentials"
    /\ last.op = "remove"
    /\ last.success
    /\ last.user_id = TextOf(session.user_id)

====
